---------------------------- MODULE Spec2Model ----------------------------
(***************************************************************************)
(* push-to: synchronisation of a source file tree onto a target file tree. *)
(*                                                                         *)
(* The model follows the run of index.js: the two file systems are         *)
(* scanned, createPlan builds the six-phase plan from the two listings,    *)
(* and Plan.execute() runs the phases against the target file system.      *)
(*                                                                         *)
(* A JavaScript string is a sequence of one-character strings, so that     *)
(* startsWith, endsWith, substring, split and join are computed as the     *)
(* code computes them.                                                     *)
(***************************************************************************)
EXTENDS Naturals, Integers, Sequences, FiniteSets, TLC

(***************************************************************************)
(* String primitives (the JavaScript String methods the code calls).       *)
(***************************************************************************)
StartsWith(s, p) == Len(p) <= Len(s) /\ SubSeq(s, 1, Len(p)) = p

EndsWith(s, p) == Len(p) <= Len(s) /\ SubSeq(s, Len(s) - Len(p) + 1, Len(s)) = p

\* s.includes(p)
Includes(s, p) == \E i \in 1..(Len(s) - Len(p) + 1) : SubSeq(s, i, i + Len(p) - 1) = p

\* s.substring(n), n counted from 0
SubstringFrom(s, n) == SubSeq(s, n + 1, Len(s))

\* 1-based position of the first c in s, 0 when there is none
IndexOfChar(s, c) ==
    IF \E i \in 1..Len(s) : s[i] = c
    THEN CHOOSE i \in 1..Len(s) : s[i] = c /\ \A j \in 1..(i - 1) : s[j] # c
    ELSE 0

\* 1-based position of the last c in s, 0 when there is none
LastIndexOfChar(s, c) ==
    IF \E i \in 1..Len(s) : s[i] = c
    THEN CHOOSE i \in 1..Len(s) : s[i] = c /\ \A j \in (i + 1)..Len(s) : s[j] # c
    ELSE 0

RECURSIVE Split(_, _)
\* s.split(c): "" splits into one empty token
Split(s, c) ==
    LET i == IndexOfChar(s, c)
    IN  IF i = 0 THEN <<s>>
        ELSE <<SubSeq(s, 1, i - 1)>> \o Split(SubSeq(s, i + 1, Len(s)), c)

RECURSIVE Join(_, _)
\* segs.join(c): the empty array joins to ""
Join(segs, c) ==
    IF Len(segs) = 0 THEN <<>>
    ELSE IF Len(segs) = 1 THEN segs[1]
    ELSE segs[1] \o <<c>> \o Join(Tail(segs), c)

\* segs.slice(n), n counted from 0
SliceFrom(segs, n) == SubSeq(segs, n + 1, Len(segs))

RECURSIVE TrimLeft(_)
TrimLeft(s) == IF Len(s) > 0 /\ s[1] = " " THEN TrimLeft(Tail(s)) ELSE s

RECURSIVE TrimRight(_)
TrimRight(s) ==
    IF Len(s) > 0 /\ s[Len(s)] = " " THEN TrimRight(SubSeq(s, 1, Len(s) - 1)) ELSE s

\* s.trim()
Trim(s) == TrimRight(TrimLeft(s))

\* c.toLowerCase() on the letters of the model's alphabet
LowerChar(c) ==
    CASE c = "A" -> "a"
      [] c = "J" -> "j"
      [] c = "S" -> "s"
      [] OTHER -> c

\* s.toLowerCase()
ToLowerCase(s) == [i \in 1..Len(s) |-> LowerChar(s[i])]

RECURSIVE StripLeadingSlashes(_)
\* s.replace(/^\/+/, '')
StripLeadingSlashes(s) ==
    IF Len(s) > 0 /\ s[1] = "/" THEN StripLeadingSlashes(Tail(s)) ELSE s

\* s.replace(/\\/g, '/')
BackslashToSlash(s) == [i \in 1..Len(s) |-> IF s[i] = "\\" THEN "/" ELSE s[i]]

RECURSIVE CollapseSlashes(_)
\* s.replace(/\/+/g, '/')
CollapseSlashes(s) ==
    IF Len(s) < 2 THEN s
    ELSE IF s[1] = "/" /\ s[2] = "/" THEN CollapseSlashes(Tail(s))
    ELSE <<s[1]>> \o CollapseSlashes(Tail(s))

\* array.filter(p => p): the non-empty tokens
NonEmpty(tokens) == SelectSeq(tokens, LAMBDA t : t # <<>>)

\* array.includes(x)
SeqIncludes(seq, x) == \E i \in 1..Len(seq) : seq[i] = x

Range(seq) == {seq[i] : i \in 1..Len(seq)}

(***************************************************************************)
(* lib/skipFiles.js: the skip-pattern matcher.                             *)
(***************************************************************************)
\* One segment against one pattern segment
matchSegmentPattern(segment, patternSegment) ==
    IF patternSegment = <<"*">> THEN segment # <<>>
    ELSE IF patternSegment = <<"*", "*">> THEN TRUE
    ELSE IF StartsWith(patternSegment, <<"*", "*">>)
         THEN EndsWith(segment, SubstringFrom(patternSegment, 2))
    ELSE IF StartsWith(patternSegment, <<"*">>)
         THEN EndsWith(segment, SubstringFrom(patternSegment, 1))
    ELSE IF EndsWith(patternSegment, <<"*">>)
         THEN StartsWith(segment, SubSeq(patternSegment, 1, Len(patternSegment) - 1))
    ELSE segment = patternSegment

RECURSIVE matchSimplePattern(_, _)
RECURSIVE MatchLoop(_, _, _, _)
\* The while loop of matchSimplePattern and its final return; pathIndex and
\* patternIndex are the code's indices, counted from 0.
MatchLoop(pathSegments, patternSegments, pathIndex, patternIndex) ==
    IF ~(patternIndex < Len(patternSegments) /\ pathIndex < Len(pathSegments))
    THEN pathIndex = Len(pathSegments) /\ patternIndex = Len(patternSegments)
    ELSE
      LET patternSegment == patternSegments[patternIndex + 1]
          pathSegment    == pathSegments[pathIndex + 1]
      IN
      IF patternSegment = <<"*", "*">> THEN
          \/ patternIndex + 1 >= Len(patternSegments)
          \/ \E i \in pathIndex..Len(pathSegments) :
                matchSimplePattern(Join(SliceFrom(pathSegments, i), "/"),
                                   Join(SliceFrom(patternSegments, patternIndex + 1), "/"))
      ELSE IF patternSegment = <<"*">> THEN
          IF pathSegment = <<>> THEN FALSE
          ELSE MatchLoop(pathSegments, patternSegments, pathIndex + 1, patternIndex + 1)
      ELSE IF Includes(patternSegment, <<"*">>) THEN
          IF matchSegmentPattern(pathSegment, patternSegment)
          THEN MatchLoop(pathSegments, patternSegments, pathIndex + 1, patternIndex + 1)
          ELSE IF StartsWith(patternSegment, <<"*", "*">>) /\ Len(patternSegment) > 2
          THEN
              \* lines 123-139
              IF EndsWith(pathSegment, SubstringFrom(patternSegment, 2))
              THEN MatchLoop(pathSegments, patternSegments, pathIndex + 1, patternIndex + 1)
              ELSE IF /\ patternIndex = Len(patternSegments) - 1
                      /\ Len(patternSegments) > 1
                      /\ Len(pathSegments) - pathIndex > 2
                   THEN FALSE
                   ELSE MatchLoop(pathSegments, patternSegments, pathIndex + 1, patternIndex)
          ELSE FALSE
      ELSE
          IF pathSegment = patternSegment
          THEN MatchLoop(pathSegments, patternSegments, pathIndex + 1, patternIndex + 1)
          ELSE FALSE

\* Mutant: the pattern is matched against the last segments of the path
matchSimplePattern_TailOnly(path, pattern) ==
    LET pathSegments    == Split(path, "/")
        patternSegments == Split(pattern, "/")
        extra           == Len(pathSegments) - Len(patternSegments)
    IN  MatchLoop(IF extra > 0 THEN SliceFrom(pathSegments, extra) ELSE pathSegments,
                  patternSegments, 0, 0)

matchSimplePattern(path, pattern) ==
    MatchLoop(Split(path, "/"), Split(pattern, "/"), 0, 0)

matchesPattern(filePath, pattern) ==
    LET normalizedPath    == BackslashToSlash(StripLeadingSlashes(filePath))
        normalizedPattern == BackslashToSlash(StripLeadingSlashes(pattern))
    IN  IF normalizedPattern = <<"*", "*">> THEN TRUE
        ELSE matchSimplePattern(normalizedPath, normalizedPattern)

\* Mutant: the tokens are not trimmed
PatternList_NoTrim(patternsString) == NonEmpty(Split(patternsString, ","))

\* The tokens of a comma-separated list: split(',').map(trim).filter(p => p)
PatternList(patternsString) ==
    LET raw == Split(patternsString, ",")
    IN  NonEmpty([i \in 1..Len(raw) |-> Trim(raw[i])])

matchesAnyPattern(filePath, patternsString) ==
    IF patternsString = <<>> THEN FALSE
    ELSE \E i \in 1..Len(PatternList(patternsString)) :
            matchesPattern(filePath, PatternList(patternsString)[i])

(***************************************************************************)
(* lib/skipFiles.js: the validation of the skip patterns.                  *)
(***************************************************************************)
RECURSIVE CountSingleStars(_)
\* (segment.replace(/\*\*/g, 'DOUBLE_STAR').match(/\*/g) || []).length
CountSingleStars(segment) ==
    IF segment = <<>> THEN 0
    ELSE IF Len(segment) >= 2 /\ segment[1] = "*" /\ segment[2] = "*"
         THEN CountSingleStars(SubSeq(segment, 3, Len(segment)))
         ELSE (IF segment[1] = "*" THEN 1 ELSE 0) + CountSingleStars(Tail(segment))

\* Lines 19-32: a segment equal to ** and a segment with * but without **
MixesDoubleAndSingleStar(segments) ==
    LET hasDoubleStar == \E i \in 1..Len(segments) : segments[i] = <<"*", "*">>
        hasSingleStar == \E i \in 1..Len(segments) :
                            /\ segments[i] # <<"*", "*">>
                            /\ Includes(segments[i], <<"*">>)
                            /\ ~Includes(segments[i], <<"*", "*">>)
    IN  hasDoubleStar /\ hasSingleStar

\* Lines 36-51: the checks made on each segment
IsValidSegment(segment) ==
    /\ ~(/\ Includes(segment, <<"*", "*">>)
         /\ segment # <<"*", "*">>
         /\ ~StartsWith(segment, <<"*", "*">>))
    /\ ~(CountSingleStars(segment) > 1)

\* Mutant: the test for ** mixed with * in another segment is missing
isValidPattern_NoMixTest(pattern) ==
    IF Includes(pattern, <<"*", "*", "*">>) \/ Includes(pattern, <<"/", "/">>)
    THEN FALSE
    ELSE \A i \in 1..Len(Split(pattern, "/")) : IsValidSegment(Split(pattern, "/")[i])

isValidPattern(pattern) ==
    IF Includes(pattern, <<"*", "*", "*">>) \/ Includes(pattern, <<"/", "/">>)
    THEN FALSE
    ELSE LET segments == Split(pattern, "/")
         IN  IF MixesDoubleAndSingleStar(segments) THEN FALSE
             ELSE \A i \in 1..Len(segments) : IsValidSegment(segments[i])

\* Mutant: only the first pattern of the list is validated
validatePatterns_FirstOnly(envVarValue) ==
    IF envVarValue = <<>> THEN TRUE
    ELSE \/ PatternList(envVarValue) = <<>>
         \/ isValidPattern(PatternList(envVarValue)[1])

validatePatterns(envVarValue) ==
    IF envVarValue = <<>> THEN TRUE
    ELSE \A i \in 1..Len(PatternList(envVarValue)) :
            isValidPattern(PatternList(envVarValue)[i])

(***************************************************************************)
(* The state of a run.                                                     *)
(***************************************************************************)
VARIABLES
    env,          \* process.env: the settings the code reads
    sourceDisk,   \* the files under the source root: relative name -> content
    targetDisk,   \* the files under the target root: absolute path -> content
    sourceFs,     \* the source file-system object (kind, path, directory, files)
    targetFs,     \* the target file-system object
    plan,         \* the Plan built by createPlan
    pc,           \* where the run of index.js stands
    phase,        \* the phase Plan.execute() is awaiting (0 before, 1..6 during)
    stepState,    \* stepState[k][i]: the state of the i-th operation of phase k
    stepContent,  \* stepContent[k][i]: what a copy operation has read
    rejections,   \* the operations that rejected, in the order they rejected
    result,       \* how Plan.execute() settled, and with which operation's error
    scanned,      \* the sides whose scanDirectory() has resolved
    before        \* the target disk as it was when the run began

vars == <<env, sourceDisk, targetDisk, sourceFs, targetFs, plan, pc, phase,
          stepState, stepContent, rejections, result, scanned, before>>

(***************************************************************************)
(* lib/skipFiles.js: the checks index.js and createPlan call.              *)
(***************************************************************************)
checkForInvalidDontDelete == validatePatterns(env.DONT_DELETE_TARGET_FILES)

checkForInvalidDontOverride == validatePatterns(env.DONT_OVERRIDE_TARGET_FILES)

checkForSkipFileReplace(localRelativePath) ==
    matchesAnyPattern(localRelativePath, env.DONT_OVERRIDE_TARGET_FILES)

checkForSkipFileDelete(localRelativePath) ==
    matchesAnyPattern(localRelativePath, env.DONT_DELETE_TARGET_FILES)

(***************************************************************************)
(* lib/createPlan.js                                                       *)
(***************************************************************************)
DefaultAssetExtensions ==
    << <<"c","s","s">>, <<"j","s">>,
       <<"p","n","g">>, <<"j","p","g">>, <<"j","p","e","g">>, <<"s","v","g">>,
       <<"g","i","f">>, <<"i","c","o">>, <<"w","e","b","p">>,
       <<"m","p","4">>, <<"w","e","b","m">>,
       <<"w","o","f","f">>, <<"w","o","f","f","2">>, <<"t","t","f">>,
       <<"e","o","t">>, <<"o","t","f">>,
       <<"x","m","l">>, <<"j","s","o","n">>, <<"t","x","t">>, <<"l","o","g">>,
       <<"m","d">>, <<"m","a","r","k","d","o","w","n">>, <<"y","m","l">> >>

getAssetExtensions ==
    IF env.ASSETS_EXTENSIONS # <<>>
    THEN LET raw == Split(env.ASSETS_EXTENSIONS, ",")
         IN  [i \in 1..Len(raw) |-> Trim(ToLowerCase(raw[i]))]
    ELSE DefaultAssetExtensions

\* Mutant: the path is compared without being lowercased
isAsset_CaseSensitive(path) ==
    \E i \in 1..Len(getAssetExtensions) :
        EndsWith(path, <<".">> \o getAssetExtensions[i])

isAsset(path) ==
    \E i \in 1..Len(getAssetExtensions) :
        EndsWith(ToLowerCase(path), <<".">> \o getAssetExtensions[i])

getDirectoryPath(filePath) ==
    LET lastSlash == LastIndexOfChar(filePath, "/")
    IN  IF lastSlash = 0 THEN <<>> ELSE SubSeq(filePath, 1, lastSlash - 1)

RECURSIVE AddDirectories(_, _)
\* The loop of getDirectories: a Set keeps its members in insertion order.
AddDirectories(directories, files) ==
    IF files = <<>> THEN directories
    ELSE LET dir == getDirectoryPath(Head(files))
         IN  AddDirectories(IF dir # <<>> /\ ~SeqIncludes(directories, dir)
                            THEN Append(directories, dir)
                            ELSE directories,
                            Tail(files))

getDirectories(files) == AddDirectories(<<>>, files)

isLogicFile(path) == ~isAsset(path)

getRelativePath(fullPath, basePath) ==
    IF basePath = <<>> THEN fullPath
    ELSE IF fullPath = basePath THEN <<>>
    ELSE LET normalizedBase ==
                 IF EndsWith(basePath, <<"/">>) THEN basePath ELSE basePath \o <<"/">>
         IN  IF StartsWith(fullPath, normalizedBase)
             THEN SubstringFrom(fullPath, Len(normalizedBase))
             ELSE fullPath

joinPath(basePath, relativePath) ==
    IF basePath = <<>> THEN relativePath
    ELSE LET normalizedBase ==
                 IF EndsWith(basePath, <<"/">>) THEN basePath ELSE basePath \o <<"/">>
             normalizedRelative ==
                 IF StartsWith(relativePath, <<"/">>)
                 THEN SubstringFrom(relativePath, 1)
                 ELSE relativePath
         IN  normalizedBase \o normalizedRelative

\* Mutant: the two file systems are handed to the operation in the wrong order
PlanStep_SidesSwapped(action, source, target) ==
    [action |-> action, source |-> source, target |-> target,
     sourceFs |-> "target", targetFs |-> "source"]

\* new PlanStep(action, source, target, sourceFs, targetFs); a null source
\* is <<>>, and the two file systems are known by their side
PlanStep(action, source, target) ==
    [action |-> action, source |-> source, target |-> target,
     sourceFs |-> "source", targetFs |-> "target"]

\* a || b for two strings
OrElse(a, b) == IF a # <<>> THEN a ELSE b

\* sourceFs.path || sourceFs.directory || ''
BasePathOf(fs) == OrElse(fs.path, OrElse(fs.directory, <<>>))

\* Lines 159-174: the directories to create
CreateMissingDirectories(sourceFiles, targetFiles, sourceBasePath, targetBasePath) ==
    LET sourceDirectories == getDirectories(sourceFiles)
        targetDirectories == getDirectories(targetFiles)
        relativeDir(dir)  == getRelativePath(dir, sourceBasePath)
        targetDir(dir)    == joinPath(targetBasePath, relativeDir(dir))
        missing == SelectSeq(sourceDirectories,
                       LAMBDA dir : /\ relativeDir(dir) # <<>>
                                    /\ relativeDir(dir) # <<".">>
                                    /\ ~SeqIncludes(targetDirectories, targetDir(dir)))
    IN  [i \in 1..Len(missing) |->
            PlanStep("create_directory", <<>>, targetDir(missing[i]))]

\* Mutant: the "don't override" check of the upload loop is missing
IsUploaded_Always(sourceFile, sourceBasePath) == TRUE

\* Mutant: the upload loop also skips what "don't delete" matches
IsUploaded_UnlessProtected(sourceFile, sourceBasePath) ==
    /\ ~checkForSkipFileReplace(getRelativePath(sourceFile, sourceBasePath))
    /\ ~checkForSkipFileDelete(getRelativePath(sourceFile, sourceBasePath))

\* Lines 177-183: whether the upload loop goes on with this source file
IsUploaded(sourceFile, sourceBasePath) ==
    ~checkForSkipFileReplace(getRelativePath(sourceFile, sourceBasePath))

\* Lines 176-191: the copy operations of phase 2
UploadAssets(sourceFiles, sourceBasePath, targetBasePath) ==
    LET chosen == SelectSeq(sourceFiles,
                      LAMBDA f : IsUploaded(f, sourceBasePath) /\ isAsset(f))
    IN  [i \in 1..Len(chosen) |->
            PlanStep("copy", chosen[i],
                     joinPath(targetBasePath, getRelativePath(chosen[i], sourceBasePath)))]

\* Lines 176-183 and 193-199: the copy operations of phase 3
UploadLogic(sourceFiles, sourceBasePath, targetBasePath) ==
    LET chosen == SelectSeq(sourceFiles,
                      LAMBDA f : IsUploaded(f, sourceBasePath) /\ isLogicFile(f))
    IN  [i \in 1..Len(chosen) |->
            PlanStep("copy", chosen[i],
                     joinPath(targetBasePath, getRelativePath(chosen[i], sourceBasePath)))]

\* Mutant: the deletion loop checks the "don't delete" patterns only
IsDeletable_DontDeleteOnly(targetFile, targetBasePath) ==
    ~checkForSkipFileDelete(getRelativePath(targetFile, targetBasePath))

\* Lines 203-213: whether the deletion loop goes on with this target file
IsDeletable(targetFile, targetBasePath) ==
    /\ ~checkForSkipFileDelete(getRelativePath(targetFile, targetBasePath))
    /\ ~checkForSkipFileReplace(getRelativePath(targetFile, targetBasePath))

\* Lines 217-219 and 227-229: the target file has no file in the source listing
IsAbsentFromSource(targetFile, sourceFiles, sourceBasePath, targetBasePath) ==
    ~SeqIncludes(sourceFiles,
                 joinPath(sourceBasePath, getRelativePath(targetFile, targetBasePath)))

\* Lines 202-223: the delete operations of phase 4
RemoveOldLogic(sourceFiles, targetFiles, sourceBasePath, targetBasePath) ==
    LET chosen == SelectSeq(targetFiles,
                      LAMBDA t : /\ IsDeletable(t, targetBasePath)
                                 /\ isLogicFile(t)
                                 /\ IsAbsentFromSource(t, sourceFiles,
                                                       sourceBasePath, targetBasePath))
    IN  [i \in 1..Len(chosen) |-> PlanStep("delete_file", <<>>, chosen[i])]

\* Lines 202-213 and 225-233: the delete operations of phase 5
RemoveOldAssets(sourceFiles, targetFiles, sourceBasePath, targetBasePath) ==
    LET chosen == SelectSeq(targetFiles,
                      LAMBDA t : /\ IsDeletable(t, targetBasePath)
                                 /\ isAsset(t)
                                 /\ IsAbsentFromSource(t, sourceFiles,
                                                       sourceBasePath, targetBasePath))
    IN  [i \in 1..Len(chosen) |-> PlanStep("delete_file", <<>>, chosen[i])]

\* Lines 236-250: the directories to delete
DeleteOldDirectories(sourceFiles, targetFiles, sourceBasePath, targetBasePath) ==
    LET sourceDirectories == getDirectories(sourceFiles)
        targetDirectories == getDirectories(targetFiles)
        sourceDir(dir) == joinPath(sourceBasePath, getRelativePath(dir, targetBasePath))
        old == SelectSeq(targetDirectories,
                   LAMBDA dir : /\ dir # targetBasePath
                                /\ ~SeqIncludes(sourceDirectories, sourceDir(dir)))
    IN  [i \in 1..Len(old) |-> PlanStep("delete_directory", <<>>, old[i])]

\* Mutant: a source file is uploaded only if the target does not list it yet
createPlan_SkipExisting(srcFs, tgtFs) ==
    LET sourceFiles    == srcFs.files
        targetFiles    == tgtFs.files
        sourceBasePath == BasePathOf(srcFs)
        targetBasePath == BasePathOf(tgtFs)
        isNew(st)      == ~SeqIncludes(targetFiles, st.target)
    IN  << CreateMissingDirectories(sourceFiles, targetFiles, sourceBasePath, targetBasePath),
           SelectSeq(UploadAssets(sourceFiles, sourceBasePath, targetBasePath), isNew),
           SelectSeq(UploadLogic(sourceFiles, sourceBasePath, targetBasePath), isNew),
           RemoveOldLogic(sourceFiles, targetFiles, sourceBasePath, targetBasePath),
           RemoveOldAssets(sourceFiles, targetFiles, sourceBasePath, targetBasePath),
           DeleteOldDirectories(sourceFiles, targetFiles, sourceBasePath, targetBasePath) >>

\* The Plan: phase k of Plan.execute() runs the operations of createPlan(..)[k]
createPlan(srcFs, tgtFs) ==
    LET sourceFiles    == srcFs.files
        targetFiles    == tgtFs.files
        sourceBasePath == BasePathOf(srcFs)
        targetBasePath == BasePathOf(tgtFs)
    IN  << CreateMissingDirectories(sourceFiles, targetFiles, sourceBasePath, targetBasePath),
           UploadAssets(sourceFiles, sourceBasePath, targetBasePath),
           UploadLogic(sourceFiles, sourceBasePath, targetBasePath),
           RemoveOldLogic(sourceFiles, targetFiles, sourceBasePath, targetBasePath),
           RemoveOldAssets(sourceFiles, targetFiles, sourceBasePath, targetBasePath),
           DeleteOldDirectories(sourceFiles, targetFiles, sourceBasePath, targetBasePath) >>

(***************************************************************************)
(* The file systems.  A disk is the set of files and directories that      *)
(* exist, under their resolved paths (repeated and trailing slashes do not *)
(* matter to path resolution).                                             *)
(***************************************************************************)
Resolve(path) ==
    LET p == CollapseSlashes(path)
    IN  IF Len(p) > 1 /\ p[Len(p)] = "/" THEN SubSeq(p, 1, Len(p) - 1) ELSE p

\* The directories above a resolved path
Ancestors(p) == {SubSeq(p, 1, i - 1) : i \in {j \in 2..Len(p) : p[j] = "/"}}

IsUnder(p, dir) == StartsWith(p, dir \o <<"/">>)

DirectoryExists(disk, dir) == dir = <<>> \/ dir \in disk.dirs

\* The collaborators that reach the target over the network
Remote == {"ftp", "ftps", "sftp"}

\* The string "true"
True == <<"t", "r", "u", "e">>

\* The dry-run test at the head of writeFile, deleteFile, createDirectory
\* and deleteDirectory: ftp.js reads DRY_RUN, the others PLUGIN_DRY_RUN
DryRun(fs) ==
    IF fs.kind = "ftp" THEN env.DRY_RUN = True ELSE env.PLUGIN_DRY_RUN = True

\* new LocalFileSystem(path) / new FtpFileSystem(url), url's pathname given
NewFs(kind, root) ==
    [kind      |-> kind,
     path      |-> IF kind = "local" THEN root ELSE <<>>,
     directory |-> IF kind = "local" THEN <<>> ELSE root,
     files     |-> <<>>]

\* The path a scan reports for the entry `name` of directory `dir`
FullPath(kind, dir, name) ==
    IF kind = "local" THEN dir \o <<"/">> \o name
    ELSE CollapseSlashes(dir \o <<"/">> \o name)

RECURSIVE ScanEntry(_, _, _)
\* readDirRecursive / _scanDirectoryRecursive down to the file with the
\* relative name made of `segments`
ScanEntry(kind, dir, segments) ==
    IF Len(segments) = 1 THEN FullPath(kind, dir, segments[1])
    ELSE ScanEntry(kind, FullPath(kind, dir, segments[1]), Tail(segments))

\* this.path of a LocalFileSystem, this.directory of an FTP file system
RootOf(fs) == IF fs.kind = "local" THEN fs.path ELSE fs.directory

\* The file the scan of `fs` reports for the relative name `name`
ScannedPath(fs, name) == ScanEntry(fs.kind, RootOf(fs), Split(name, "/"))

\* scanDirectory(): the listing, in the order of the directory entries
scanDirectory(fs, entries) ==
    [fs EXCEPT !.files = [i \in 1..Len(entries) |-> ScannedPath(fs, entries[i])]]

\* fs.writeFile / client.put
writeFile(disk, path, content) ==
    [disk EXCEPT !.files = [p \in DOMAIN disk.files \cup {Resolve(path)} |->
                               IF p = Resolve(path) THEN content ELSE disk.files[p]]]

\* fs.unlink / client.delete
deleteFile(disk, path) ==
    [disk EXCEPT !.files = [p \in DOMAIN disk.files \ {Resolve(path)} |-> disk.files[p]]]

\* fs.mkdir(path, {recursive: true}) / client.mkdir(path, true)
createDirectory(disk, path) ==
    [disk EXCEPT !.dirs = disk.dirs \cup {Resolve(path)} \cup Ancestors(Resolve(path))]

\* fs.rmdir(path, {recursive: true}) / client.rmdir(path, true)
deleteDirectory(disk, path) ==
    [files |-> [p \in {q \in DOMAIN disk.files : ~IsUnder(q, Resolve(path))} |->
                   disk.files[p]],
     dirs  |-> {d \in disk.dirs : d # Resolve(path) /\ ~IsUnder(d, Resolve(path))}]

(***************************************************************************)
(* The inputs of a run: the two trees, the two roots and the settings.     *)
(***************************************************************************)
MaxSourceFiles == 2
MaxTargetFiles == 2

\* Relative names of files: logic and asset files at the root, in a
\* directory and in a nested directory, and files named .env
IndexH  == <<"i", ".", "h">>
AppJs   == <<"a", ".", "j", "s">>
DotEnv  == <<".", "e", "n", "v">>
DIndexH == <<"d", "/", "i", ".", "h">>
DEAppJs == <<"d", "/", "e", "/", "a", ".", "j", "s">>
DDotEnv == <<"d", "/", ".", "e", "n", "v">>
UpperJs == <<"A", ".", "J", "S">>

\* The directory entries in the order a scan meets them
Entries == <<IndexH, AppJs, DotEnv, DIndexH, DEAppJs, DDotEnv, UpperJs>>

RECURSIVE InSomeOrder(_)
\* The members of a set, one after the other
InSomeOrder(set) ==
    IF set = {} THEN <<>>
    ELSE LET x == CHOOSE y \in set : TRUE
         IN  <<x>> \o InSomeOrder(set \ {x})

EntriesOf(names) ==
    SelectSeq(Entries, LAMBDA n : n \in names) \o InSomeOrder(names \ Range(Entries))

Trees(names, max) == {t \in SUBSET names : Cardinality(t) <= max}

OldContent == <<"o", "l", "d">>

\* The disk holding the files `names` under `root`; a source file's content
\* is named after the file
DiskOf(root, names, old) ==
    LET paths == {Resolve(root \o <<"/">> \o n) : n \in names}
        nameOf(p) == CHOOSE n \in names : Resolve(root \o <<"/">> \o n) = p
    IN  [files |-> [p \in paths |-> IF old THEN OldContent ELSE nameOf(p)],
         dirs  |-> {Resolve(root)} \cup Ancestors(Resolve(root))
                     \cup UNION {Ancestors(p) : p \in paths}]

EmptyPlan == <<<<>>, <<>>, <<>>, <<>>, <<>>, <<>>>>

NoResult == [status |-> "pending", error |-> <<0, 0>>]

\* process.env with the three settings createPlan reads
Settings(dontDelete, dontOverride, assets) ==
    [DONT_DELETE_TARGET_FILES   |-> dontDelete,
     DONT_OVERRIDE_TARGET_FILES |-> dontOverride,
     ASSETS_EXTENSIONS          |-> assets,
     PLUGIN_DRY_RUN             |-> <<>>,
     DRY_RUN                    |-> <<>>]

\* The environment with the two dry-run variables set as given
DryRunSettings(pluginDryRun, dryRun) ==
    [Settings(<<>>, <<>>, <<>>) EXCEPT !.PLUGIN_DRY_RUN = pluginDryRun,
                                       !.DRY_RUN = dryRun]

\* roots: pairs of a source and a target file system; names: the relative
\* names the two trees draw their files from; settings: the environments
\* start: where the run of index.js stands at first; sourceTrees and
\* targetTrees: the sets of relative names the two trees may hold
InitOn(start, roots, sourceTrees, targetTrees, settings) ==
    /\ env \in settings
    /\ \E r \in roots : sourceFs = r[1] /\ targetFs = r[2]
    /\ \E t \in sourceTrees : sourceDisk = DiskOf(RootOf(sourceFs), t, FALSE)
    /\ \E t \in targetTrees : targetDisk = DiskOf(RootOf(targetFs), t, TRUE)
    /\ before = targetDisk
    /\ scanned = {}
    /\ plan = EmptyPlan
    /\ pc = start
    /\ phase = 0
    /\ stepState = [k \in 1..6 |-> <<>>]
    /\ stepContent = [k \in 1..6 |-> <<>>]
    /\ rejections = <<>>
    /\ result = NoResult

InitAt(start, roots, names, settings) ==
    InitOn(start, roots, Trees(names, MaxSourceFiles), Trees(names, MaxTargetFiles),
           settings)

\* The run from the call of createPlan on, the patterns validated
InitWith(roots, names, settings) == InitAt("createPlan", roots, names, settings)

(***************************************************************************)
(* index.js: the skip patterns are validated before anything else.         *)
(***************************************************************************)
\* Lines 46-55 of main: process.exit(1) on an invalid list, else the file
\* systems are created and createPlan is called
ValidatePatterns ==
    /\ pc = "main"
    /\ pc' = IF ~checkForInvalidDontDelete THEN "exit1"
             ELSE IF ~checkForInvalidDontOverride THEN "exit1"
             ELSE "createPlan"
    /\ UNCHANGED <<env, sourceDisk, targetDisk, sourceFs, targetFs, plan, phase,
                   stepState, stepContent, rejections, result, scanned, before>>

(***************************************************************************)
(* createPlan: the two scans run concurrently, then the plan is built.     *)
(***************************************************************************)
\* The relative names of the files a disk holds under `root`
NamesOn(disk, root) ==
    {SubstringFrom(p, Len(Resolve(root)) + 1) :
        p \in {q \in DOMAIN disk.files : IsUnder(q, Resolve(root))}}

\* sourceFs.scanDirectory() resolves
ScanSource ==
    /\ pc = "createPlan"
    /\ "source" \notin scanned
    /\ sourceFs' = scanDirectory(sourceFs, EntriesOf(NamesOn(sourceDisk, RootOf(sourceFs))))
    /\ scanned' = scanned \cup {"source"}
    /\ UNCHANGED <<env, sourceDisk, targetDisk, targetFs, plan, pc, phase,
                   stepState, stepContent, rejections, result, before>>

\* targetFs.scanDirectory() resolves
ScanTarget ==
    /\ pc = "createPlan"
    /\ "target" \notin scanned
    /\ targetFs' = scanDirectory(targetFs, EntriesOf(NamesOn(targetDisk, RootOf(targetFs))))
    /\ scanned' = scanned \cup {"target"}
    /\ UNCHANGED <<env, sourceDisk, targetDisk, sourceFs, plan, pc, phase,
                   stepState, stepContent, rejections, result, before>>

\* Both scans have resolved: the listings are read and the plan is built
BuildPlan ==
    /\ pc = "createPlan"
    /\ scanned = {"source", "target"}
    /\ plan' = createPlan(sourceFs, targetFs)
    /\ stepState' = [k \in 1..6 |-> [i \in 1..Len(plan'[k]) |-> "pending"]]
    /\ stepContent' = [k \in 1..6 |-> [i \in 1..Len(plan'[k]) |-> <<>>]]
    /\ pc' = "planned"
    /\ UNCHANGED <<env, sourceDisk, targetDisk, sourceFs, targetFs, phase,
                   rejections, result, scanned, before>>

(***************************************************************************)
(* Plan.execute() and PlanStep.execute()                                   *)
(***************************************************************************)
\* this.sourceFs / this.targetFs of an operation: the file system of a side
\* and the disk behind it
FsOf(side) == IF side = "source" THEN sourceFs ELSE targetFs

DiskAt(side) == IF side = "source" THEN sourceDisk ELSE targetDisk

\* The disk of `side` after a writing call to the file system `called`
\* resolved: `written` only if it is the disk of that file system and the
\* dry run does not return before the call
AfterCall(side, called, written) ==
    IF side = called /\ ~DryRun(FsOf(called)) THEN written ELSE DiskAt(side)

\* Mutant: a copy calls writeFile at once, without reading the source
FirstCall_WriteFirst(step) == IF step.action = "copy" THEN "writing" ELSE "calling"

\* The first collaborator call of an operation: step.execute() runs up to
\* its first await when it is pushed on the promise queue
FirstCall(step) == IF step.action = "copy" THEN "reading" ELSE "calling"

InFlight == {"reading", "writing", "calling"}

\* A call that resolved: "tolerated" is a delete whose failure the
\* collaborator swallowed
Resolved == {"resolved", "tolerated"}

\* for (const step of phase k) promiseQueue.push(step.execute())
Dispatch(states, k) ==
    [states EXCEPT ![k] = [i \in 1..Len(plan[k]) |-> FirstCall(plan[k][i])]]

Steps == UNION {{<<k, i>> : i \in 1..Len(plan[k])} : k \in 1..6}

\* plan.execute() is called: phase 1 is dispatched
Execute ==
    /\ pc = "planned"
    /\ pc' = "executing"
    /\ phase' = 1
    /\ stepState' = Dispatch(stepState, 1)
    /\ UNCHANGED <<env, sourceDisk, targetDisk, sourceFs, targetFs, plan,
                   stepContent, rejections, result, scanned, before>>

\* targetFs.createDirectory(target) resolves
CreateDirectoryResolves(k, i) ==
    /\ plan[k][i].action = "create_directory"
    /\ stepState[k][i] = "calling"
    /\ targetDisk' = AfterCall("target", plan[k][i].targetFs,
                                createDirectory(targetDisk, plan[k][i].target))
    /\ sourceDisk' = AfterCall("source", plan[k][i].targetFs,
                                createDirectory(sourceDisk, plan[k][i].target))
    /\ stepState' = [stepState EXCEPT ![k][i] = "resolved"]
    /\ UNCHANGED <<env, sourceFs, targetFs, plan, pc, phase,
                   stepContent, rejections, result, scanned, before>>

\* sourceFs.readFile(source) resolves with the file's content
ReadResolves(k, i) ==
    /\ plan[k][i].action = "copy"
    /\ stepState[k][i] = "reading"
    /\ Resolve(plan[k][i].source) \in DOMAIN DiskAt(plan[k][i].sourceFs).files
    /\ stepContent' = [stepContent EXCEPT
                          ![k][i] = DiskAt(plan[k][i].sourceFs).files[Resolve(plan[k][i].source)]]
    /\ stepState' = [stepState EXCEPT ![k][i] = "writing"]
    /\ UNCHANGED <<env, sourceDisk, targetDisk, sourceFs, targetFs, plan, pc,
                   phase, rejections, result, scanned, before>>

\* targetFs.writeFile(target, content) resolves
WriteResolves(k, i) ==
    /\ plan[k][i].action = "copy"
    /\ stepState[k][i] = "writing"
    /\ \/ DryRun(FsOf(plan[k][i].targetFs))
       \/ DirectoryExists(DiskAt(plan[k][i].targetFs),
                           getDirectoryPath(Resolve(plan[k][i].target)))
    /\ targetDisk' = AfterCall("target", plan[k][i].targetFs,
                                writeFile(targetDisk, plan[k][i].target, stepContent[k][i]))
    /\ sourceDisk' = AfterCall("source", plan[k][i].targetFs,
                                writeFile(sourceDisk, plan[k][i].target, stepContent[k][i]))
    /\ stepState' = [stepState EXCEPT ![k][i] = "resolved"]
    /\ UNCHANGED <<env, sourceFs, targetFs, plan, pc, phase,
                   stepContent, rejections, result, scanned, before>>

\* targetFs.deleteFile(target) resolves, the file removed
DeleteFileResolves(k, i) ==
    /\ plan[k][i].action = "delete_file"
    /\ stepState[k][i] = "calling"
    /\ \/ DryRun(FsOf(plan[k][i].targetFs))
       \/ Resolve(plan[k][i].target) \in DOMAIN DiskAt(plan[k][i].targetFs).files
    /\ targetDisk' = AfterCall("target", plan[k][i].targetFs,
                                deleteFile(targetDisk, plan[k][i].target))
    /\ sourceDisk' = AfterCall("source", plan[k][i].targetFs,
                                deleteFile(sourceDisk, plan[k][i].target))
    /\ stepState' = [stepState EXCEPT ![k][i] = "resolved"]
    /\ UNCHANGED <<env, sourceFs, targetFs, plan, pc, phase,
                   stepContent, rejections, result, scanned, before>>

\* targetFs.deleteDirectory(target) resolves, the directory removed with
\* everything below it
DeleteDirectoryResolves(k, i) ==
    /\ plan[k][i].action = "delete_directory"
    /\ stepState[k][i] = "calling"
    /\ targetDisk' = AfterCall("target", plan[k][i].targetFs,
                                deleteDirectory(targetDisk, plan[k][i].target))
    /\ sourceDisk' = AfterCall("source", plan[k][i].targetFs,
                                deleteDirectory(sourceDisk, plan[k][i].target))
    /\ stepState' = [stepState EXCEPT ![k][i] = "resolved"]
    /\ UNCHANGED <<env, sourceFs, targetFs, plan, pc, phase,
                   stepContent, rejections, result, scanned, before>>

\* Whether the call the operation waits for can fail: reading the source
\* always can, a target call only if the dry run does not return before it
CanFail(k, i) ==
    stepState[k][i] = "reading" \/ ~DryRun(FsOf(plan[k][i].targetFs))

\* Whether the target collaborator resolves a failed call with a warning
\* (deleteFile and deleteDirectory of ftp.js, ftps.js and sftp.js) instead
\* of rejecting
SwallowsFailure(step) ==
    /\ FsOf(step.targetFs).kind \in Remote
    /\ step.action \in {"delete_file", "delete_directory"}

\* A collaborator call fails and the collaborator rejects: the operation
\* rejects, nothing written or removed
StepRejects(k, i) ==
    /\ stepState[k][i] \in InFlight
    /\ CanFail(k, i)
    /\ ~SwallowsFailure(plan[k][i])
    /\ stepState' = [stepState EXCEPT ![k][i] = "rejected"]
    /\ rejections' = Append(rejections, <<k, i>>)
    /\ UNCHANGED <<env, sourceDisk, targetDisk, sourceFs, targetFs, plan, pc,
                   phase, stepContent, result, scanned, before>>

\* A delete fails and the collaborator resolves with a warning
DeleteFailureTolerated(k, i) ==
    /\ stepState[k][i] \in InFlight
    /\ CanFail(k, i)
    /\ SwallowsFailure(plan[k][i])
    /\ stepState' = [stepState EXCEPT ![k][i] = "tolerated"]
    /\ UNCHANGED <<env, sourceDisk, targetDisk, sourceFs, targetFs, plan, pc,
                   phase, stepContent, rejections, result, scanned, before>>

\* Mutant: the await resolves as soon as one operation resolved (Promise.race)
AllResolved_Race(k) ==
    Len(plan[k]) = 0 \/ \E i \in 1..Len(plan[k]) : stepState[k][i] \in Resolved

\* Mutant: the await resolves once every operation settled (Promise.allSettled)
AllResolved_AllSettled(k) ==
    \A i \in 1..Len(plan[k]) : stepState[k][i] \in Resolved \cup {"rejected"}

\* await Promise.all(promiseQueue) resolves: every operation of the phase
\* resolved
AllResolved(k) == \A i \in 1..Len(plan[k]) : stepState[k][i] \in Resolved

\* await Promise.all(promiseQueue) rejects: an operation of the phase rejected
SomeRejected(k) == \E i \in 1..Len(plan[k]) : stepState[k][i] = "rejected"

\* The await of the running phase resolves: the next phase is dispatched,
\* or execute() resolves after the sixth
PhaseSettled ==
    /\ pc = "executing"
    /\ AllResolved(phase)
    /\ IF phase < 6
       THEN /\ phase' = phase + 1
            /\ stepState' = Dispatch(stepState, phase + 1)
            /\ UNCHANGED <<pc, result>>
       ELSE /\ pc' = "done"
            /\ result' = [status |-> "resolved", error |-> <<0, 0>>]
            /\ UNCHANGED <<phase, stepState>>
    /\ UNCHANGED <<env, sourceDisk, targetDisk, sourceFs, targetFs, plan,
                   stepContent, rejections, scanned, before>>

\* The await of the running phase rejects with the error of the first
\* operation that rejected: execute() rejects
PhaseRejected ==
    /\ pc = "executing"
    /\ SomeRejected(phase)
    /\ pc' = "failed"
    /\ result' = [status |-> "rejected", error |-> Head(rejections)]
    /\ UNCHANGED <<env, sourceDisk, targetDisk, sourceFs, targetFs, plan, phase,
                   stepState, stepContent, rejections, scanned, before>>

(***************************************************************************)
(* The specifications.                                                     *)
(***************************************************************************)
LocalRoot(root) == NewFs("local", root)
FtpRoot(root)   == NewFs("ftp", root)
FtpsRoot(root)  == NewFs("ftps", root)
SftpRoot(root)  == NewFs("sftp", root)

Unset == <<>>

PatAnyDotEnv  == <<"*", "*", "/", ".", "e", "n", "v">>
PatSuffixEnv  == <<"*", "*", ".", "e", "n", "v">>
PatUnderD     == <<"d", "/", "*", "*">>
PatListDAndRootEnv ==
    <<" ", "d", "/", "*", "*", " ", ",", "*", ".", "e", "n", "v">>
AssetsHAndEnv == <<"H", ",", " ", "e", "n", "v">>

Init ==
    InitWith({<<LocalRoot(<<"/", "s">>), LocalRoot(<<"/", "t">>)>>,
              <<LocalRoot(<<"/", "s">>), FtpRoot(<<"/", "t", "/">>)>>},
             {IndexH, DIndexH, DEAppJs, DDotEnv},
             {Settings(Unset, Unset, Unset),
              Settings(PatAnyDotEnv, Unset, Unset)})

Next ==
    \/ ScanSource
    \/ ScanTarget
    \/ BuildPlan
    \/ Execute
    \/ \E s \in Steps : CreateDirectoryResolves(s[1], s[2])
    \/ \E s \in Steps : ReadResolves(s[1], s[2])
    \/ \E s \in Steps : WriteResolves(s[1], s[2])
    \/ \E s \in Steps : DeleteFileResolves(s[1], s[2])
    \/ \E s \in Steps : DeleteDirectoryResolves(s[1], s[2])
    \/ \E s \in Steps : StepRejects(s[1], s[2])
    \/ \E s \in Steps : DeleteFailureTolerated(s[1], s[2])
    \/ PhaseSettled
    \/ PhaseRejected

Spec == Init /\ [][Next]_vars

\* The runs with PLUGIN_DRY_RUN=true, against each of the four backends
DryInit ==
    InitWith({<<LocalRoot(<<"/", "s">>), LocalRoot(<<"/", "t">>)>>,
              <<LocalRoot(<<"/", "s">>), FtpRoot(<<"/", "t">>)>>,
              <<LocalRoot(<<"/", "s">>), FtpsRoot(<<"/", "t">>)>>,
              <<LocalRoot(<<"/", "s">>), SftpRoot(<<"/", "t">>)>>},
             {IndexH, DIndexH, DEAppJs},
             {DryRunSettings(True, Unset)})

DrySpec == DryInit /\ [][Next]_vars

\* The whole run of main, over valid and invalid pattern lists
PatMixed         == <<"*", "*", "/", "*", ".", "e", "n", "v">>
PatTripleStar    == <<"*", "*", "*", "/", ".", "e", "n", "v">>
PatListInvalidLast ==
    <<"d", "/", "*", "*", ",", " ", "*", "*", "/", "*", ".", "e", "n", "v">>
PatListOnlyCommas == <<",", " ", ",">>

MainInit ==
    InitAt("main",
           {<<LocalRoot(<<"/", "s">>), LocalRoot(<<"/", "t">>)>>,
            <<LocalRoot(<<"/", "s">>), SftpRoot(<<"/", "t">>)>>},
           {IndexH, DIndexH, DEAppJs},
           {Settings(Unset, Unset, Unset),
            Settings(PatUnderD, PatListOnlyCommas, Unset),
            Settings(PatMixed, Unset, Unset),
            Settings(Unset, PatTripleStar, Unset),
            Settings(PatListInvalidLast, Unset, Unset),
            Settings(PatAnyDotEnv, PatListInvalidLast, Unset)})

MainNext == ValidatePatterns \/ Next

MainSpec == MainInit /\ [][MainNext]_vars

\* The validation of one pattern: every pattern of up to MaxPatternLen
\* characters, and the patterns the documentation and the tests name
MaxPatternLen == 5

PatternChars == {"*", "/", "a"}

PatKeep       == <<"*", "*", ".", "k", "e", "e", "p">>
PatConfig     == <<"*", ".", "c", "o", "n", "f", "i", "g">>
PatWorkerJs   == <<"w", "o", "r", "k", "e", "r", "/", "*", ".", "j", "s">>

Patterns ==
    UNION {[1..n -> PatternChars] : n \in 1..MaxPatternLen}
        \cup {PatKeep, PatAnyDotEnv, PatConfig, PatWorkerJs, PatMixed, PatTripleStar}

ValidateInit ==
    InitAt("main",
           {<<LocalRoot(<<"/", "s">>), LocalRoot(<<"/", "t">>)>>},
           {},
           {Settings(p, Unset, Unset) : p \in Patterns}
               \cup {Settings(Unset, p, Unset) : p \in Patterns})

ValidateNext == ValidatePatterns

ValidateSpec == ValidateInit /\ [][ValidateNext]_vars

(***************************************************************************)
(* Plan.execute(): the claims about the staged execution.                  *)
(***************************************************************************)
Settled == Resolved \cup {"rejected"}

StateOf(s) == stepState[s[1]][s[2]]

StepOf(s) == plan[s[1]][s[2]]

\* C1: the six phases run strictly in order: whenever an operation of a
\* phase has been started, every operation of every earlier phase has
\* settled; so every upload has settled before the first deletion starts.
C1_PhasesRunInOrder ==
    \A s \in Steps : \A t \in Steps :
        (s[1] < t[1] /\ StateOf(t) # "pending") => StateOf(s) \in Settled

\* C1 witness: a deletion is in flight in a plan that also uploads
C1_Witness ==
    \E s \in Steps : \E t \in Steps :
        /\ StepOf(s).action = "copy"
        /\ StepOf(t).action = "delete_file"
        /\ StateOf(t) \in InFlight

\* C2: once an operation of the running phase has rejected, no operation
\* of a later phase is ever started, the await of the phase can only
\* reject, and execute() rejects with the error of the first operation that
\* rejected; execute() resolves only if every operation of all six phases
\* resolved.
C2_RejectionStopsThePlan ==
    /\ rejections # <<>> =>
          /\ pc \in {"executing", "failed"}
          /\ Head(rejections)[1] = phase
          /\ \A t \in Steps : t[1] > phase => StateOf(t) = "pending"
          /\ pc = "executing" => (ENABLED PhaseRejected /\ ~ENABLED PhaseSettled)
    /\ pc = "failed" =>
          /\ result.status = "rejected"
          /\ rejections # <<>>
          /\ result.error = Head(rejections)
          /\ StateOf(result.error) = "rejected"
    /\ pc = "done" =>
          /\ result.status = "resolved"
          /\ \A s \in Steps : StateOf(s) \in Resolved

\* C2 witness: execute() has rejected in a phase before the last one, with
\* operations of a later phase never started
C2_Witness ==
    /\ pc = "failed"
    /\ phase < 6
    /\ \E t \in Steps : t[1] > phase /\ StateOf(t) = "pending"

\* The files the target holds when it mirrors the source
MirrorOfSource ==
    {Resolve(RootOf(targetFs) \o <<"/">> \o n) : n \in NamesOn(sourceDisk, RootOf(sourceFs))}

NoSkipPatterns ==
    /\ env.DONT_DELETE_TARGET_FILES = Unset
    /\ env.DONT_OVERRIDE_TARGET_FILES = Unset

EveryCallSucceeded == \A s \in Steps : StateOf(s) = "resolved"

\* C3: with no skip patterns and every collaborator call succeeding, when
\* the plan has been executed to completion the files on the target are
\* exactly the source files rebased onto the target base path.
C3_TargetMirrorsSource ==
    (pc = "done" /\ NoSkipPatterns /\ EveryCallSucceeded)
        => DOMAIN targetDisk.files = MirrorOfSource

\* C4: every file that was on the target before the run and whose relative
\* path matches a "don't delete" pattern is still on the target when the
\* plan has been executed to completion.
C4_ProtectedFilesSurvive ==
    (pc = "done" /\ EveryCallSucceeded) =>
        \A n \in NamesOn(before, RootOf(targetFs)) :
            checkForSkipFileDelete(n) =>
                Resolve(RootOf(targetFs) \o <<"/">> \o n) \in DOMAIN targetDisk.files

(***************************************************************************)
(* createPlan alone, over more roots, trees and settings.                  *)
(***************************************************************************)
PlanInit ==
    InitWith({<<LocalRoot(<<"/", "s">>), LocalRoot(<<"/", "t">>)>>,
              <<LocalRoot(<<"s">>), LocalRoot(<<"t", "/">>)>>,
              <<LocalRoot(<<"s", "/">>), LocalRoot(<<"t">>)>>,
              <<FtpRoot(<<"/", "s", "/">>), FtpRoot(<<"/", "t", "/">>)>>,
              <<LocalRoot(<<"/", "s">>), FtpRoot(<<"/", "t">>)>>},
             {IndexH, DotEnv, DEAppJs, DDotEnv, UpperJs},
             {Settings(Unset, Unset, Unset),
              Settings(PatAnyDotEnv, Unset, Unset),
              Settings(Unset, PatSuffixEnv, Unset),
              Settings(PatListDAndRootEnv, PatAnyDotEnv, Unset),
              Settings(Unset, PatUnderD, Unset),
              Settings(Unset, Unset, AssetsHAndEnv)})

PlanNext == ScanSource \/ ScanTarget \/ BuildPlan

PlanSpec == PlanInit /\ [][PlanNext]_vars

\* The matching of one target file against one "don't delete" pattern:
\* every path of up to MaxPathDepth segments, the source empty
MaxPathDepth == 3

PathSegments == {<<"d">>, <<"e">>, DotEnv, <<"d">> \o DotEnv}

PathsOfDepth(n) == {Join(segs, "/") : segs \in [1..n -> PathSegments]}

Paths == UNION {PathsOfDepth(n) : n \in 1..MaxPathDepth}

PatDThenAny    == PatUnderD
PatAnyThenE    == <<"*", "*", "/", "e">>
PatDAnyE       == <<"d", "/", "*", "*", "/", "e">>
PatAnyDAny     == <<"*", "*", "/", "d", "/", "*", "*">>
PatEverything  == <<"*", "*">>

DoubleStarPatterns == {PatDThenAny, PatAnyThenE, PatDAnyE, PatAnyDAny, PatEverything}

\* The directory worker, the paths below it and the patterns on it
Worker == <<"w", "o", "r", "k", "e", "r">>

PathsUnderWorker == {Worker \o <<"/">> \o path : path \in Paths}

PatWorkerSuffixEnv == Worker \o <<"/">> \o PatSuffixEnv

\* Patterns without **
PatStar          == <<"*">>
PatStarEnv       == <<"*">> \o DotEnv
PatWorkerStarEnv == Worker \o <<"/", "*">> \o DotEnv
PatStarThenE     == <<"*", "/", "e">>
PatDThenStar     == <<"d", "/", "*">>
PatDPrefix       == <<"d", "*">>

SingleStarPatterns ==
    {PatStar, PatStarEnv, PatWorkerStarEnv, PatStarThenE, PatDThenStar, PatDPrefix}

\* Lists of patterns: the same two tokens in both orders, with spaces
\* and with an empty token, and lists without any token
PatListRootEnvAndD == PatStarEnv \o <<",", ",">> \o PatUnderD

PatternLists == {PatListDAndRootEnv, PatListRootEnvAndD, PatListOnlyCommas, Unset}

MatchPatterns ==
    DoubleStarPatterns \cup {PatSuffixEnv, PatWorkerSuffixEnv} \cup SingleStarPatterns
        \cup PatternLists

MatchInit ==
    InitOn("createPlan",
           {<<LocalRoot(<<"/", "s">>), LocalRoot(<<"/", "t">>)>>},
           {{}},
           {{path} : path \in Paths \cup PathsUnderWorker},
           {Settings(p, Unset, Unset) : p \in MatchPatterns})

MatchSpec == MatchInit /\ [][PlanNext]_vars

\* The plans for a target root named d, written in each form of a base
\* path, over every path of up to MaxPathDepth segments
RelativeInit ==
    InitOn("createPlan",
           {<<LocalRoot(<<"/", "s">>), LocalRoot(<<"d">>)>>,
            <<LocalRoot(<<"/", "s">>), LocalRoot(<<"d", "/">>)>>,
            <<LocalRoot(<<"/", "s">>), LocalRoot(<<"/", "d">>)>>,
            <<LocalRoot(<<"/", "s">>), FtpRoot(<<"/", "d", "/">>)>>},
           {{}},
           {{path} : path \in Paths},
           {Settings(Unset, Unset, Unset)})

RelativeSpec == RelativeInit /\ [][PlanNext]_vars

(***************************************************************************)
(* createPlan: the claims about the plan.  They are stated over the trees  *)
(* the listings were scanned from: a file is known by its relative name    *)
(* under its root, whatever form the root and the listed path have.        *)
(***************************************************************************)
Planned == pc # "createPlan"

SourceNames == NamesOn(sourceDisk, RootOf(sourceFs))

TargetNames == NamesOn(before, RootOf(targetFs))

\* The listed path of the source / target file with the relative name n
SourceFile(n) == ScannedPath(sourceFs, n)

TargetFile(n) == ScannedPath(targetFs, n)

\* The target base path joined with the relative name n
Rebased(n) ==
    LET base == BasePathOf(targetFs)
    IN  (IF base[Len(base)] = "/" THEN base ELSE base \o <<"/">>) \o n

Copies == plan[2] \o plan[3]

Deletes == plan[4] \o plan[5]

CopiesOf(steps, n) ==
    Len(SelectSeq(steps, LAMBDA st : st.action = "copy" /\ st.source = SourceFile(n)))

DeletesOf(steps, n) ==
    Len(SelectSeq(steps, LAMBDA st : st.action = "delete_file" /\ st.target = TargetFile(n)))

\* The file's lowercased name ends with "." and a configured extension
HasAssetExtension(n) ==
    LET segments == Split(n, "/")
        name     == ToLowerCase(segments[Len(segments)])
    IN  \E e \in Range(getAssetExtensions) : EndsWith(name, <<".">> \o e)

C7_ProtectedButAbsentIsUploaded ==
    Planned =>
        \A n \in SourceNames :
            (/\ matchesAnyPattern(n, env.DONT_OVERRIDE_TARGET_FILES)
             /\ ~SeqIncludes(targetFs.files, TargetFile(n)))
                => CopiesOf(Copies, n) >= 1

\* C8: a source file whose relative path matches a "don't delete" pattern
\* but no "don't override" pattern gets its Copy operation onto the rebased
\* target path, also when that target file already exists.
C8_DontDeleteNeverSuppressesUpload ==
    Planned =>
        \A n \in SourceNames :
            (/\ matchesAnyPattern(n, env.DONT_DELETE_TARGET_FILES)
             /\ ~matchesAnyPattern(n, env.DONT_OVERRIDE_TARGET_FILES))
                => \E i \in 1..Len(Copies) :
                      /\ Copies[i].action = "copy"
                      /\ Copies[i].source = SourceFile(n)
                      /\ Copies[i].target = Rebased(n)

\* C8 witness: such a file, present on both sides
C8_Witness ==
    /\ Planned
    /\ \E n \in SourceNames \cap TargetNames :
          /\ matchesAnyPattern(n, env.DONT_DELETE_TARGET_FILES)
          /\ ~matchesAnyPattern(n, env.DONT_OVERRIDE_TARGET_FILES)

C10_DeletedIffAbsentFromSource ==
    Planned =>
        \A n \in TargetNames :
            (/\ ~matchesAnyPattern(n, env.DONT_DELETE_TARGET_FILES)
             /\ ~matchesAnyPattern(n, env.DONT_OVERRIDE_TARGET_FILES))
                => IF n \in SourceNames
                   THEN DeletesOf(Deletes, n) = 0
                   ELSE /\ DeletesOf(Deletes, n) = 1
                        /\ DeletesOf(plan[5], n) = (IF HasAssetExtension(n) THEN 1 ELSE 0)

\* C11: no DeleteDirectory operation of the plan has the target base
\* directory itself as its target, for every source listing, target listing
\* and form of the target base path.
C11_BaseDirectoryNeverDeleted ==
    Planned =>
        \A i \in 1..Len(plan[6]) :
            Resolve(plan[6][i].target) # Resolve(RootOf(targetFs))

\* The target lists the same relative paths as the source
TargetMirrorsSource == SourceNames = TargetNames

OldLogicLeft ==
    {n \in TargetNames \ SourceNames :
        /\ ~HasAssetExtension(n)
        /\ Resolve(RootOf(targetFs) \o <<"/">> \o n) \in DOMAIN targetDisk.files}

\* C13: at the moment any DeleteFile of the DeleteOldAssets phase starts,
\* no logic file that was on the target before the run and is absent from
\* the source still exists on the target, for every skip-pattern
\* configuration and every collaborator.
C13_OldLogicGoneBeforeOldAssets ==
    (\E i \in 1..Len(plan[5]) : stepState[5][i] # "pending") => OldLogicLeft = {}

(***************************************************************************)
(* The collaborators: dry run.                                             *)
(***************************************************************************)
\* C14: with PLUGIN_DRY_RUN=true, executing any plan against any backend
\* performs no mutating call on the target (the target stays as it was
\* before the run), while every writeFile, deleteFile, createDirectory and
\* deleteDirectory still resolves successfully.
C14_DryRunLeavesTargetUntouched ==
    env.PLUGIN_DRY_RUN = True =>
        /\ targetDisk = before
        /\ \A s \in Steps :
              /\ StateOf(s) # "tolerated"
              /\ StateOf(s) = "rejected" =>
                    StepOf(s).action = "copy" /\ stepContent[s[1]][s[2]] = <<>>

(***************************************************************************)
(* index.js and skipFiles.js: the validation of the pattern lists.         *)
(***************************************************************************)
\* The list holds a pattern that is not valid
HasInvalidPattern(list) ==
    \E i \in 1..Len(PatternList(list)) : ~isValidPattern(PatternList(list)[i])

\* No file system was scanned or changed and no plan was built
NothingTouched ==
    /\ scanned = {}
    /\ sourceFs.files = <<>>
    /\ targetFs.files = <<>>
    /\ plan = EmptyPlan
    /\ phase = 0
    /\ targetDisk = before

\* C15: if the "don't delete" list or the "don't override" list holds at
\* least one invalid pattern, the run exits with code 1 before any file
\* system is scanned or mutated and before any plan is built; one invalid
\* pattern invalidates its whole list, an unset or empty list is valid.
C15_InvalidListStopsTheRun ==
    IF \/ HasInvalidPattern(env.DONT_DELETE_TARGET_FILES)
       \/ HasInvalidPattern(env.DONT_OVERRIDE_TARGET_FILES)
    THEN pc \in {"main", "exit1"} /\ NothingTouched
    ELSE pc # "exit1"

\* C15 witness: the run has exited on a list whose first pattern is valid
\* and whose last is not
C15_Witness ==
    /\ pc = "exit1"
    /\ PatListInvalidLast \in {env.DONT_DELETE_TARGET_FILES, env.DONT_OVERRIDE_TARGET_FILES}

\* The one pattern a run of ValidateSpec validates
ThePattern ==
    IF env.DONT_DELETE_TARGET_FILES # Unset THEN env.DONT_DELETE_TARGET_FILES
    ELSE env.DONT_OVERRIDE_TARGET_FILES

Validated == pc # "main"

Rejected == pc = "exit1"

Accepted == pc = "createPlan"

\* The segment holds the marker ** somewhere
HoldsDoubleStar(segment) ==
    \E i \in 1..(Len(segment) - 1) : segment[i] = "*" /\ segment[i + 1] = "*"

\* The segment's wildcard is a single *
CarriesSingleStar(segment) ==
    (\E i \in 1..Len(segment) : segment[i] = "*") /\ ~HoldsDoubleStar(segment)

\* C16: validation rejects every pattern that has a segment equal to **
\* together with another segment whose wildcard is a single * (such as
\* **/*.env), and accepts **.keep, **/.env, *.config and worker/*.js.
C16_DoubleStarWithSingleStarRejected ==
    Validated =>
        LET segments == Split(ThePattern, "/")
        IN  /\ (/\ \E i \in 1..Len(segments) : segments[i] = <<"*", "*">>
                /\ \E j \in 1..Len(segments) : CarriesSingleStar(segments[j]))
                   => Rejected
            /\ ThePattern \in {PatKeep, PatAnyDotEnv, PatConfig, PatWorkerJs} => Accepted

\* C16 witness: **/*.env has been rejected
C16_Witness == Rejected /\ ThePattern = PatMixed

RECURSIVE CountMarkers(_)
\* The number of wildcard markers of a string, read from the left: ** is
\* one marker, a * not part of a ** is one marker
CountMarkers(str) ==
    IF str = <<>> THEN 0
    ELSE IF Len(str) >= 2 /\ str[1] = "*" /\ str[2] = "*"
         THEN 1 + CountMarkers(SubSeq(str, 3, Len(str)))
         ELSE (IF str[1] = "*" THEN 1 ELSE 0) + CountMarkers(Tail(str))

\* C17: validation rejects every pattern in which a single segment holds
\* more than one wildcard marker, in any combination of * and **.
C17_TwoMarkersInOneSegmentRejected ==
    Validated =>
        LET segments == Split(ThePattern, "/")
        IN  (\E i \in 1..Len(segments) : CountMarkers(segments[i]) > 1) => Rejected

\* C18: validation accepts no pattern in which wildcards occur in more
\* than one place of the path.
C18_WildcardOnlyOnceInThePath ==
    Validated => (CountMarkers(ThePattern) > 1 => Rejected)

(***************************************************************************)
(* skipFiles.js: the claims about the matcher, on the plan it decides.     *)
(***************************************************************************)
\* The target file n, absent from the source, is kept: the "don't delete"
\* pattern matched its relative path
Kept(n) == DeletesOf(Deletes, n) = 0

LastSegment(n) == Split(n, "/")[Len(Split(n, "/"))]

\* C19: the single-segment pattern **<suffix> (such as **.env) matches a
\* path at any directory depth exactly when the path's last segment, the
\* file name, ends with <suffix>, whatever the directories above are named.
C19_SuffixPatternMatchesAtAnyDepth ==
    (Planned /\ env.DONT_DELETE_TARGET_FILES = PatSuffixEnv) =>
        \A n \in TargetNames :
            Kept(n) <=> EndsWith(LastSegment(n), SubstringFrom(PatSuffixEnv, 2))

RECURSIVE AssignsDoubleStar(_, _)
\* Some number k >= 0 of path segments can be assigned to each ** so that
\* the other pattern segments equal the other path segments
AssignsDoubleStar(pathSegments, patternSegments) ==
    IF patternSegments = <<>> THEN pathSegments = <<>>
    ELSE IF Head(patternSegments) = <<"*", "*">>
         THEN \E k \in 0..Len(pathSegments) :
                 AssignsDoubleStar(SubSeq(pathSegments, k + 1, Len(pathSegments)),
                                   Tail(patternSegments))
         ELSE /\ pathSegments # <<>>
              /\ Head(pathSegments) = Head(patternSegments)
              /\ AssignsDoubleStar(Tail(pathSegments), Tail(patternSegments))

\* C20: a ** pattern segment matches zero or more whole path segments
\* wherever it stands: a path matches iff some number k >= 0 of path
\* segments can be assigned to the ** so that the rest of the pattern
\* matches the rest of the path, including k = 0 when ** is the last
\* pattern segment and no path segments remain.
C20_DoubleStarMatchesZeroOrMore ==
    (Planned /\ env.DONT_DELETE_TARGET_FILES \in DoubleStarPatterns) =>
        \A n \in TargetNames :
            Kept(n) <=> AssignsDoubleStar(Split(n, "/"),
                                          Split(env.DONT_DELETE_TARGET_FILES, "/"))

\* The number of directories between worker/ and the file n below it
DirectoriesBelowWorker(n) == Len(Split(n, "/")) - 2

IsUnderWorker(n) == Len(Split(n, "/")) >= 2 /\ Split(n, "/")[1] = Worker

\* C21: for the pattern worker/**.env, a path under worker/ matches when
\* its file name ends with .env and the file lies directly in worker/ or
\* exactly one directory below it, and never matches when the file lies two
\* or more directories below worker/ or outside worker/.
C21_WorkerSuffixPatternDepth ==
    (Planned /\ env.DONT_DELETE_TARGET_FILES = PatWorkerSuffixEnv) =>
        \A n \in TargetNames :
            /\ (/\ IsUnderWorker(n)
                /\ EndsWith(LastSegment(n), DotEnv)
                /\ DirectoriesBelowWorker(n) \in {0, 1}) => Kept(n)
            /\ (~IsUnderWorker(n) \/ DirectoriesBelowWorker(n) >= 2) => ~Kept(n)

\* C22: a * wildcard never crosses a segment boundary: for every pattern
\* without **, a path matches only if it has exactly as many segments as
\* the pattern; so * matches exactly the root-level files and worker/*.env
\* only the .env files directly in worker/.
C22_SingleStarStaysInItsSegment ==
    (Planned /\ env.DONT_DELETE_TARGET_FILES \in SingleStarPatterns) =>
        \A n \in TargetNames :
            LET segments == Split(n, "/")
                pattern  == env.DONT_DELETE_TARGET_FILES
            IN  /\ Kept(n) =>
                      /\ Len(segments) = Len(Split(pattern, "/"))
                      /\ \A i \in 1..Len(segments) : segments[i] # <<>>
                /\ pattern = PatStar => (Kept(n) <=> Len(segments) = 1)
                /\ pattern = PatWorkerStarEnv =>
                      (Kept(n) <=> /\ Len(segments) = 2
                                   /\ segments[1] = Worker
                                   /\ EndsWith(segments[2], DotEnv))

\* C22 witness: worker/*.env has kept a .env file directly in worker/
C22_Witness ==
    /\ Planned
    /\ env.DONT_DELETE_TARGET_FILES = PatWorkerStarEnv
    /\ \E n \in TargetNames : Kept(n) /\ Len(Split(n, "/")) = 2

\* The patterns a list of PatternLists names, whatever their order
TokensOf(list) ==
    IF list \in {PatListDAndRootEnv, PatListRootEnvAndD}
    THEN {PatUnderD, PatStarEnv}
    ELSE {}

\* C23: matchesAnyPattern(path, list) is true exactly when at least one
\* comma-separated token of the list, trimmed and not empty, matches the
\* path as a single pattern; it is false for an empty or unset list, and
\* the order of the tokens does not matter.
C23_AnyTokenMatches ==
    (Planned /\ env.DONT_DELETE_TARGET_FILES \in PatternLists) =>
        \A n \in TargetNames :
            Kept(n) <=> \E p \in TokensOf(env.DONT_DELETE_TARGET_FILES) :
                            matchesPattern(n, p)

\* C23 witness: a file kept by the token d/** written with spaces around
\* it, the other token not matching the file
C23_Witness ==
    /\ Planned
    /\ env.DONT_DELETE_TARGET_FILES = PatListDAndRootEnv
    /\ \E n \in TargetNames : Kept(n) /\ ~matchesPattern(n, PatStarEnv)

(***************************************************************************)
(* createPlan.js: the path helpers.                                        *)
(***************************************************************************)
\* C24: computing the relative path is idempotent: for every listed path p
\* and base path B, absolute or relative, with or without trailing slash,
\* getRelativePath(getRelativePath(p, B), B) equals getRelativePath(p, B).
C24_RelativePathIdempotent ==
    Planned =>
        \A i \in 1..Len(targetFs.files) :
            LET p == targetFs.files[i]
                B == BasePathOf(targetFs)
            IN  getRelativePath(getRelativePath(p, B), B) = getRelativePath(p, B)

(***************************************************************************)
(* Plan.execute(): leaving a phase.                                        *)
(***************************************************************************)
\* The phases execute() has left: all of them once it resolved or rejected,
\* the ones before the running phase while it runs
PhaseIsLeft(k) == pc \in {"done", "failed"} \/ (pc = "executing" /\ k < phase)

\* C25: the operations of a phase are dispatched together, none waiting for
\* another, and execute() leaves a phase, to go on with the next or to
\* finish with an error, only when every operation dispatched in that phase
\* has settled, also when one of them fails.
C25_PhaseLeftOnlyWhenSettled ==
    /\ \A s \in Steps : \A t \in Steps :
           (s[1] = t[1] /\ StateOf(s) # "pending") => StateOf(t) # "pending"
    /\ \A s \in Steps :
           (PhaseIsLeft(s[1]) /\ StateOf(s) # "pending") => StateOf(s) \in Settled

(***************************************************************************)
(* PlanStep.execute(): the copy.                                           *)
(***************************************************************************)
CopySteps == {s \in Steps : StepOf(s).action = "copy"}

ContentRead(s) == stepContent[s[1]][s[2]]

\* C26: a copy calls writeFile on the target only after readFile on the
\* source resolved, and writes exactly the content read; if the read
\* rejects, writeFile is never called, the target path is left as it was
\* and the operation rejects.
C26_CopyWritesWhatItRead ==
    [][\A s \in CopySteps :
           /\ (StateOf(s) # "writing" /\ StateOf(s)' = "writing") =>
                  /\ StateOf(s) = "reading"
                  /\ ContentRead(s)' = sourceDisk.files[Resolve(StepOf(s).source)]
           /\ (StateOf(s) = "writing" /\ StateOf(s)' = "resolved") =>
                  /\ Resolve(StepOf(s).target) \in DOMAIN targetDisk'.files
                  /\ targetDisk'.files[Resolve(StepOf(s).target)] = ContentRead(s)
                  /\ ContentRead(s) = sourceDisk.files[Resolve(StepOf(s).source)]
           /\ (StateOf(s) = "reading" /\ StateOf(s)' # "reading") =>
                  /\ StateOf(s)' \in {"writing", "rejected"}
                  /\ targetDisk' = targetDisk
           /\ StateOf(s) = "rejected" => StateOf(s)' = "rejected"]_vars

\* C26 witness: one copy has written the content it read to its target,
\* and the read of another copy has rejected, its target not written
C26_Witness ==
    \E s \in CopySteps : \E t \in CopySteps :
        /\ StateOf(s) = "resolved"
        /\ Resolve(StepOf(s).target) \in DOMAIN targetDisk.files
        /\ targetDisk.files[Resolve(StepOf(s).target)] = ContentRead(s)
        /\ ContentRead(s) # <<>>
        /\ StateOf(t) = "rejected"
        /\ ContentRead(t) = <<>>
        /\ Resolve(StepOf(t).target) \notin DOMAIN targetDisk.files

(***************************************************************************)
(* createPlan: the directories.                                            *)
(***************************************************************************)
\* The directories, by relative name, that hold a file directly; the base
\* directory has the empty name
ParentsOf(names) == {getDirectoryPath(n) : n \in names}

\* The CreateDirectory operations of the plan for the directory with the
\* relative name d
CreationsOf(d) ==
    Len(SelectSeq(plan[1], LAMBDA st : Resolve(st.target) = Resolve(Rebased(d))))

\* C27: the CreateDirectories phase holds exactly one CreateDirectory for
\* each directory that is the parent of a source file, is not the base
\* directory and whose rebased path is not the parent of a target file, and
\* nothing else: none for the base directory, none for an ancestor that
\* holds no file directly.
C27_OneCreationPerMissingParent ==
    Planned =>
        /\ \A d \in ParentsOf(SourceNames) \ (ParentsOf(TargetNames) \cup {<<>>}) :
               CreationsOf(d) = 1
        /\ \A i \in 1..Len(plan[1]) :
               /\ plan[1][i].action = "create_directory"
               /\ \E d \in ParentsOf(SourceNames) \ (ParentsOf(TargetNames) \cup {<<>>}) :
                      Resolve(plan[1][i].target) = Resolve(Rebased(d))

\* The operations of the plan that put something on the target
Puts == plan[1] \o Copies

\* C28: no DeleteDirectory operation of a plan has a target that equals, or
\* is an ancestor directory of, the target of a Copy or CreateDirectory
\* operation of the same plan.
C28_NoDeletedDirectoryAboveAPut ==
    Planned =>
        \A i \in 1..Len(plan[6]) : \A j \in 1..Len(Puts) :
            /\ Resolve(plan[6][i].target) # Resolve(Puts[j].target)
            /\ ~IsUnder(Resolve(Puts[j].target), Resolve(plan[6][i].target))

\* C29: the targets of the Copy operations and the targets of the
\* DeleteFile operations of a plan are disjoint, for every form of the
\* source and target base paths.
C29_CopiedFilesAreNotDeleted ==
    Planned =>
        \A i \in 1..Len(Copies) : \A j \in 1..Len(Deletes) :
            Resolve(Copies[i].target) # Resolve(Deletes[j].target)

(***************************************************************************)
(* The source file system.                                                 *)
(***************************************************************************)
\* C30: building and executing a plan never changes the source file system:
\* createPlan only scans the two sides and reads the listings, every
\* writeFile, deleteFile, createDirectory and deleteDirectory call goes to
\* the target file system, and the source is used for readFile alone.
C30_SourceIsNeverChanged ==
    [][/\ sourceDisk' = sourceDisk
       /\ sourceFs' = [sourceFs EXCEPT !.files = sourceFs'.files]
       /\ \A s \in Steps :
              (StateOf(s) \in {"writing", "calling"} /\ StateOf(s)' = "resolved") =>
                  StepOf(s).targetFs = "target"]_vars

\* C30 witness: a plan that copied, created a directory and deleted a file
\* has been executed to completion, and the target is not what it was
C30_Witness ==
    /\ pc = "done"
    /\ targetDisk # before
    /\ \E s \in Steps : StepOf(s).action = "copy" /\ StateOf(s) = "resolved"
    /\ \E s \in Steps : StepOf(s).action = "create_directory" /\ StateOf(s) = "resolved"
    /\ \E s \in Steps : StepOf(s).action = "delete_file" /\ StateOf(s) = "resolved"
    /\ DOMAIN sourceDisk.files # {}

=============================================================================
